---- MODULE Spec2Model ----
(***************************************************************************)
(* Verification model of lmpc::vehicle_model::double_track_planar_model    *)
(* (double_track_planar_model.cpp) and of the RacingMPC interface          *)
(* (racing_mpc.hpp).                                                       *)
(*                                                                         *)
(* Arithmetic.  The code computes in double precision reals; the model     *)
(* computes the same expressions exactly over rationals, written as        *)
(* integer numerators over a common denominator.  Parameters that are      *)
(* fractions in the parameter files (cg_ratio, kroll_f, kd, bias, fr, mu)  *)
(* are stored in tenths, and GRAVITY (9.8) as GRAVITY10 = 98 tenths.       *)
(*                                                                         *)
(* Symbolic values.  casadi expressions (MX) are modelled as terms: an     *)
(* argument is a number, a vector of numbers, a decision variable of a     *)
(* stage or a free symbol; the output of a compiled casadi::Function is    *)
(* the application of that function to its argument terms.                 *)
(***************************************************************************)
EXTENDS Integers, Sequences, FiniteSets, TLC

VARIABLES
    constructed,             \* the constructor has run
    base_config_,            \* BaseVehicleModel's configuration
    config_,                 \* DoubleTrackPlanarModel::config_
    dynamics_,               \* DoubleTrackPlanarModel::dynamics_
    lateral_load_transfer_,  \* DoubleTrackPlanarModel::lateral_load_transfer_
    compile_count,           \* history: number of runs of compile_dynamics
    fd_last,                 \* history: the latest forward_dynamics call
    fd_prev,                 \* history: one earlier forward_dynamics call
    opti,                    \* the casadi::Opti the caller passes: its constraints
    nlp_in,                  \* the caller's `in` dictionary after add_nlp_constraints
    nlp_calls,               \* history: number of add_nlp_constraints calls
    solver_run,              \* what the nonlinear solver did in the latest solve
    solve_out                \* the `out` dictionary of the latest solve

vars == <<constructed, base_config_, config_, dynamics_, lateral_load_transfer_,
          compile_count, fd_last, fd_prev, opti, nlp_in, nlp_calls, solver_run,
          solve_out>>

(***************************************************************************)
(* Bounds of the model.                                                    *)
(***************************************************************************)
MaxStages == 2      \* N: stages 0..N-1 of the horizon
MaxCalls == 2       \* add_nlp_constraints calls on one Opti
MaxV == 1           \* largest speed tried
MaxT == 2           \* largest stage duration tried

GRAVITY10 == 98     \* #define GRAVITY 9.8, in tenths

(***************************************************************************)
(* Configurations: the parameter sets the loaders may hand to the          *)
(* constructor.  Fractions in tenths (suffix 10).                          *)
(***************************************************************************)
BaseConfigA ==
    [total_mass |-> 10, moi |-> 10, wheel_base |-> 2, cg_ratio10 |-> 5,
     tw_f |-> 2, tw_r |-> 2, fr10 |-> 1, cg_height |-> 1,
     cl_f |-> 1, cl_r |-> 1, air_density |-> 1, frontal_area |-> 1,
     drag_coeff |-> 1, kd10 |-> 5, bias10 |-> 6,
     max_steer |-> 1, max_steer_rate |-> 1]

BaseConfigs ==
    { BaseConfigA,
      [BaseConfigA EXCEPT !.cg_ratio10 = 4, !.max_steer = 2],
      [BaseConfigA EXCEPT !.cg_ratio10 = 6, !.total_mass = 20, !.cl_r = 2,
                          !.max_steer_rate = 2],
      [BaseConfigA EXCEPT !.wheel_base = 3, !.cg_height = 2, !.kd10 = 0] }

ConfigA ==
    [mu10 |-> 10, kroll_f10 |-> 5, P_max |-> 2, Fd_max |-> 2, Fb_max |-> -2,
     Td |-> 2, Tb |-> 2]

Configs ==
    { ConfigA,
      [ConfigA EXCEPT !.kroll_f10 = 6, !.P_max = 1, !.Fd_max = 1, !.Fb_max = -1,
                      !.Td = 1, !.Tb = 1],
      [ConfigA EXCEPT !.mu10 = 12, !.P_max = 3, !.Fb_max = -1, !.Td = 1],
      [ConfigA EXCEPT !.kroll_f10 = 4, !.Tb = 1] }

(***************************************************************************)
(* Terms (casadi MX / DM values).                                          *)
(***************************************************************************)
NumArg(n) == [kind |-> "num", num |-> n]
VecArg(v) == [kind |-> "vec", vec |-> v]
VarArg(name, stage) == [kind |-> "var", name |-> name, stage |-> stage]
SymArg(name) == [kind |-> "sym", name |-> name]

Null == [kind |-> "null"]

XIDX_YAW == 2       \* x(2)
XIDX_OMEGA == 3     \* x(3)
XIDX_BETA == 4      \* x(4)
XIDX_V == 5         \* x(5)

Sq(a) == a * a
Abs(a) == IF a < 0 THEN -1 * a ELSE a

(***************************************************************************)
(* compile_dynamics: the expressions of the compiled function, over the    *)
(* parameters p read from the configurations when it is compiled.          *)
(* x is <<px, py, yaw, omega, beta, v>>, u is <<fd, fb, delta>>; TLA+      *)
(* sequences count from 1, so x(k) of the code is x[k+1].                  *)
(***************************************************************************)
lf10(p) == p.cg_ratio10 * p.wheel_base
lr10(p) == 10 * p.wheel_base - lf10(p)
mg10(p) == p.total_mass * GRAVITY10
v_sq(x) == Sq(x[XIDX_V + 1])

\* Fx_f and Fx_r of lines 189-195, as numerators over FxDen
FxDen(p) == 2000 * p.wheel_base
Fx_f(p, u) ==
    100 * p.wheel_base * p.kd10 * u[1] + 100 * p.wheel_base * p.bias10 * u[2]
      - p.fr10 * mg10(p) * lr10(p)
Fx_r(p, u) ==
    100 * p.wheel_base * (10 - p.kd10) * u[1]
      + 100 * p.wheel_base * (10 - p.bias10) * u[2]
      - p.fr10 * mg10(p) * lf10(p)
Fx_ij(p, u) == <<Fx_f(p, u), Fx_f(p, u), Fx_r(p, u), Fx_r(p, u)>>
Fx_w(p, u, w) == IF w <= 2 THEN Fx_f(p, u) ELSE Fx_r(p, u)    \* Fx_ij(p, u)[w]

\* 100 * m * ax of line 198
m_ax100(p, x, u) ==
    100 * u[1] + 100 * u[2] - 50 * p.drag_coeff * p.frontal_area * v_sq(x)
      - p.fr10 * mg10(p)

\* Fz_f, Fz_r and Fz_ij of lines 201-208, as numerators over FzDen
FzDen(p) == 20 * (lf10(p) + lr10(p))
Fz_f(p, x, u) ==
    mg10(p) * lr10(p) - p.cg_height * m_ax100(p, x, u)
      + 5 * (lf10(p) + lr10(p)) * p.cl_f * p.air_density * p.frontal_area * v_sq(x)
Fz_r(p, x, u) ==
    mg10(p) * lr10(p) + p.cg_height * m_ax100(p, x, u)
      + 5 * (lf10(p) + lr10(p)) * p.cl_r * p.air_density * p.frontal_area * v_sq(x)
Fz_fl(p, x, u, gamma_y) ==
    Fz_f(p, x, u) - 2 * (lf10(p) + lr10(p)) * p.kroll_f10 * gamma_y
Fz_fr(p, x, u, gamma_y) ==
    Fz_f(p, x, u) + 2 * (lf10(p) + lr10(p)) * p.kroll_f10 * gamma_y
Fz_rl(p, x, u, gamma_y) ==
    Fz_r(p, x, u) - 2 * (lf10(p) + lr10(p)) * (10 - p.kroll_f10) * gamma_y
Fz_rr(p, x, u, gamma_y) ==
    Fz_r(p, x, u) + 2 * (lf10(p) + lr10(p)) * (10 - p.kroll_f10) * gamma_y
Fz_ij(p, x, u, gamma_y) ==
    <<Fz_fl(p, x, u, gamma_y), Fz_fr(p, x, u, gamma_y),
      Fz_rl(p, x, u, gamma_y), Fz_rr(p, x, u, gamma_y)>>
\* Fz_ij(p, x, u, gamma_y)[w]
Fz_w(p, x, u, gamma_y, w) ==
    CASE w = 1 -> Fz_fl(p, x, u, gamma_y)
      [] w = 2 -> Fz_fr(p, x, u, gamma_y)
      [] w = 3 -> Fz_rl(p, x, u, gamma_y)
      [] w = 4 -> Fz_rr(p, x, u, gamma_y)

\* Tyre sideslip angles of lines 211-216.  atan is evaluated where its
\* argument is exactly 0 (omega = 0, beta = 0, v # 0: the front angles are
\* delta, the rear angles 0); elsewhere the angle is not computed.
SlipKnown(x) ==
    x[XIDX_OMEGA + 1] = 0 /\ x[XIDX_BETA + 1] = 0 /\ x[XIDX_V + 1] # 0
alpha_ij(x, u) == <<u[3], u[3], 0, 0>>

\* Lateral tyre force of lines 219-226: mu * Fz * (1 + eps*Fz/Fz0) * sin(C*atan(..)).
\* The last factor is 0 at slip angle 0; elsewhere the force is not computed.
FyKnown(x, u, w) == SlipKnown(x) /\ alpha_ij(x, u)[w] = 0

\* compile_dynamics (lines 137-261): builds dynamics_ only; the construction
\* of lateral_load_transfer_ (lines 257-260) is commented out.
compile_dynamics(base, cfg) ==
    [kind |-> "function", name |-> "double_track_planar_model",
     p |-> [total_mass |-> base.total_mass, wheel_base |-> base.wheel_base,
            cg_ratio10 |-> base.cg_ratio10, fr10 |-> base.fr10,
            cg_height |-> base.cg_height, cl_f |-> base.cl_f, cl_r |-> base.cl_r,
            air_density |-> base.air_density, frontal_area |-> base.frontal_area,
            drag_coeff |-> base.drag_coeff, kd10 |-> base.kd10,
            bias10 |-> base.bias10, kroll_f10 |-> cfg.kroll_f10]]

\* dynamics_(x, u, gamma_y): the outputs as applications of the compiled
\* expressions to the argument terms.  Fx_ij reads u only.
Call(f, x, u, gamma_y) ==
    [x_dot |-> [f |-> f, out |-> "x_dot", x |-> x, u |-> u, gamma_y |-> gamma_y],
     Fx_ij |-> [f |-> f, out |-> "Fx_ij", u |-> u],
     Fy_ij |-> [f |-> f, out |-> "Fy_ij", x |-> x, u |-> u, gamma_y |-> gamma_y],
     Fz_ij |-> [f |-> f, out |-> "Fz_ij", x |-> x, u |-> u, gamma_y |-> gamma_y]]

\* casadi::substitute(e, sym, val) and depends_on(e, sym) on an output term
substitute(e, sym, val) ==
    IF "gamma_y" \in DOMAIN e /\ e.gamma_y = sym
    THEN [e EXCEPT !.gamma_y = val] ELSE e
DependsOn(e, sym) == "gamma_y" \in DOMAIN e /\ e.gamma_y = sym

(***************************************************************************)
(* Construction (lines 26-32): the member initialisers, then               *)
(* compile_dynamics().  lateral_load_transfer_ is default-constructed (a   *)
(* null casadi::Function) and compile_dynamics does not assign it.         *)
(***************************************************************************)
Init ==
    /\ constructed = FALSE
    /\ base_config_ = Null
    /\ config_ = Null
    /\ dynamics_ = Null
    /\ lateral_load_transfer_ = Null
    /\ compile_count = 0
    /\ fd_last = [status |-> "none"]
    /\ fd_prev = [status |-> "none"]
    /\ opti = <<>>
    /\ nlp_in = Null
    /\ nlp_calls = 0
    /\ solver_run = [outcome |-> "none"]
    /\ solve_out = [status |-> "none"]

DoubleTrackPlanarModel(base_config, config) ==
    /\ ~constructed
    /\ constructed' = TRUE
    /\ base_config_' = base_config
    /\ config_' = config
    /\ dynamics_' = compile_dynamics(base_config, config)
    /\ compile_count' = compile_count + 1
    /\ UNCHANGED <<lateral_load_transfer_, fd_last, fd_prev, opti, nlp_in,
                   nlp_calls, solver_run, solve_out>>

(***************************************************************************)
(* forward_dynamics (lines 49-65).  The result records how the call ended, *)
(* the caller's `in` and the caller's `out` after the call.                *)
(***************************************************************************)
ForwardDynamicsResult(in) ==
    LET gamma_y == SymArg("gamma_y")
        out0 == Call(dynamics_, in.x, in.u, gamma_y)               \* line 55
    IN  IF lateral_load_transfer_ = Null
        THEN \* line 60 calls a null casadi::Function: the call throws
             [status |-> "threw", in |-> in, out |-> out0]
        ELSE LET gamma_y_solve ==
                     [kind |-> "call", f |-> lateral_load_transfer_,
                      arg |-> NumArg(0)]
             IN  [status |-> "returned", in |-> in,
                  out |-> [k \in DOMAIN out0 \cup {"gamma_y"} |->
                             IF k = "gamma_y" THEN gamma_y_solve
                             ELSE substitute(out0[k], gamma_y, gamma_y_solve)]]

\* a variant that, when the call at line 60 fails, builds
\* lateral_load_transfer_ for the next call
forward_dynamics_lazy(in) ==
    /\ constructed
    /\ fd_last' = ForwardDynamicsResult(in)
    /\ lateral_load_transfer_' = [kind |-> "function", name |-> "G"]
    /\ \E keep \in BOOLEAN : fd_prev' = IF keep THEN fd_prev ELSE fd_last
    /\ UNCHANGED <<constructed, base_config_, config_, dynamics_,
                   compile_count, opti, nlp_in, nlp_calls, solver_run, solve_out>>

\* a variant that compiles the dynamics again on every call
forward_dynamics_recompile(in) ==
    /\ constructed
    /\ dynamics_' = compile_dynamics(base_config_, config_)
    /\ compile_count' = compile_count + 1
    /\ fd_last' = ForwardDynamicsResult(in)
    /\ \E keep \in BOOLEAN : fd_prev' = IF keep THEN fd_prev ELSE fd_last
    /\ UNCHANGED <<constructed, base_config_, config_, lateral_load_transfer_,
                   opti, nlp_in, nlp_calls, solver_run, solve_out>>

forward_dynamics(in) ==
    /\ constructed
    /\ fd_last' = ForwardDynamicsResult(in)
    /\ \E keep \in BOOLEAN : fd_prev' = IF keep THEN fd_prev ELSE fd_last
    /\ UNCHANGED <<constructed, base_config_, config_, dynamics_,
                   lateral_load_transfer_, compile_count, opti, nlp_in,
                   nlp_calls, solver_run, solve_out>>

\* the (x, u) the callers evaluate at
ForwardInputs ==
    { [x |-> VecArg(<<0, 0, 0, 0, 0, v>>), u |-> VecArg(<<fd, 0, 0>>)] :
        v \in 1..MaxV, fd \in {0, 1} }

(***************************************************************************)
(* add_nlp_constraints (lines 67-135).  `in` holds the terms of one stage: *)
(* x, u, gamma_y, xip1, uip1, t.  A constraint is a record of the          *)
(* relation, the terms it relates and the configuration values written     *)
(* into it; `stage` labels the stage whose x it was appended for.          *)
(***************************************************************************)
Elem(a, idx) == [kind |-> "elem", of |-> a, idx |-> idx]
Add(a, b) == [kind |-> "add", a |-> a, b |-> b]
Sub(a, b) == [kind |-> "sub", a |-> a, b |-> b]
Scale(num, den, a) == [kind |-> "scale", num |-> num, den |-> den, a |-> a]
TimesT(t, den, a) == [kind |-> "times_t", t |-> t, den |-> den, a |-> a]

\* lmpc::utils::align_yaw<casadi::MX>(yaw, ref), called at line 98
align_yaw(yaw, ref) == [kind |-> "align_yaw", yaw |-> yaw, ref |-> ref]
\* a copy of vector a with element idx assigned (lines 97-98)
WithElem(a, idx, e) == [kind |-> "with_elem", of |-> a, idx |-> idx, to |-> e]

StageIn(i) ==
    [x |-> VarArg("x", i), u |-> VarArg("u", i), gamma_y |-> VarArg("gamma_y", i),
     xip1 |-> VarArg("x", i + 1), uip1 |-> VarArg("u", i + 1), t |-> VarArg("t", i)]

\* the `in` of the calls a problem of MaxStages stages makes
StageInputs == { StageIn(i) : i \in 0..(MaxStages - 1) }

\* lines 97-98
xip1_temp(in) ==
    WithElem(in.xip1, XIDX_YAW,
             align_yaw(Elem(in.xip1, XIDX_YAW), Elem(in.x, XIDX_YAW)))

\* a variant whose end-point derivative f2 reads the next stage's control
DynamicsConstraintNextControl(f, in) ==
    LET f1 == Call(f, in.x, in.u, in.gamma_y).x_dot
        f2 == Call(f, xip1_temp(in), in.uip1, in.gamma_y).x_dot
        xm == Add(Scale(1, 2, Add(in.x, xip1_temp(in))), TimesT(in.t, 8, Sub(f1, f2)))
        fm == Call(f, xm, in.u, in.gamma_y).x_dot
    IN  << [kind |-> "eq", stage |-> in.x.stage,
            lhs |-> Sub(Add(in.x, TimesT(in.t, 6, Add(Add(f1, Scale(4, 1, fm)), f2))),
                        xip1_temp(in)),
            rhs |-> NumArg(0)] >>

\* lines 96-106: the dynamics constraint
DynamicsConstraint(f, in) ==
    LET f1 == Call(f, in.x, in.u, in.gamma_y).x_dot
        f2 == Call(f, xip1_temp(in), in.u, in.gamma_y).x_dot
        xm == Add(Scale(1, 2, Add(in.x, xip1_temp(in))), TimesT(in.t, 8, Sub(f1, f2)))
        fm == Call(f, xm, in.u, in.gamma_y).x_dot
    IN  << [kind |-> "eq", stage |-> in.x.stage,
            lhs |-> Sub(Add(in.x, TimesT(in.t, 6, Add(Add(f1, Scale(4, 1, fm)), f2))),
                        xip1_temp(in)),
            rhs |-> NumArg(0)] >>

\* lines 108-114: the tyre constraints, wheel i of the code is wheel i+1 here
TyreConstraints(f, in, mu10) ==
    LET out1 == Call(f, in.x, in.u, in.gamma_y)
    IN  [w \in 1..4 |->
           [kind |-> "friction", stage |-> in.x.stage, wheel |-> w,
            Fx |-> out1.Fx_ij, Fy |-> out1.Fy_ij, Fz |-> out1.Fz_ij, mu10 |-> mu10]]

\* lines 116-121: the load transfer constraint
LoadTransferConstraint(f, in, base) ==
    LET out1 == Call(f, in.x, in.u, in.gamma_y)
    IN  << [kind |-> "load_transfer", stage |-> in.x.stage, gamma_y |-> in.gamma_y,
            hcog |-> base.cg_height, twf |-> base.tw_f, twr |-> base.tw_r,
            Fx |-> out1.Fx_ij, Fy |-> out1.Fy_ij, delta |-> Elem(in.u, 2)] >>

\* lines 85, 93-94: delta_max, and Tdelta = max_steer / max_steer_rate as a
\* fraction
delta_max(base) == base.max_steer
Tdelta(base) == [num |-> base.max_steer, den |-> base.max_steer_rate]

\* a variant without the throttle/brake product constraint of line 128
StaticActuatorConstraintsNoProduct(in, base, cfg) ==
    LET v == Elem(in.x, XIDX_V)
        fd == Elem(in.u, 0)
        fb == Elem(in.u, 1)
        delta == Elem(in.u, 2)
        i == in.x.stage
    IN  << [kind |-> "prod_le", stage |-> i, a |-> v, b |-> fd, ub |-> cfg.P_max],
           [kind |-> "ge", stage |-> i, a |-> v, lb |-> 0],
           [kind |-> "bounded", stage |-> i, lb |-> 0, a |-> fd, ub |-> cfg.Fd_max],
           [kind |-> "bounded", stage |-> i, lb |-> cfg.Fb_max, a |-> fb, ub |-> 0],
           [kind |-> "bounded", stage |-> i, lb |-> -1 * delta_max(base), a |-> delta,
            ub |-> delta_max(base)] >>

\* a variant whose brake bound of line 127 is one-sided
StaticActuatorConstraintsBrakeOpen(in, base, cfg) ==
    LET v == Elem(in.x, XIDX_V)
        fd == Elem(in.u, 0)
        fb == Elem(in.u, 1)
        delta == Elem(in.u, 2)
        i == in.x.stage
    IN  << [kind |-> "prod_le", stage |-> i, a |-> v, b |-> fd, ub |-> cfg.P_max],
           [kind |-> "ge", stage |-> i, a |-> v, lb |-> 0],
           [kind |-> "bounded", stage |-> i, lb |-> 0, a |-> fd, ub |-> cfg.Fd_max],
           [kind |-> "ge", stage |-> i, a |-> fb, lb |-> cfg.Fb_max],
           [kind |-> "sqprod_le", stage |-> i, a |-> fd, b |-> fb, ub |-> 1],
           [kind |-> "bounded", stage |-> i, lb |-> -1 * delta_max(base), a |-> delta,
            ub |-> delta_max(base)] >>

\* lines 123-129: the static actuator constraints
StaticActuatorConstraints(in, base, cfg) ==
    LET v == Elem(in.x, XIDX_V)
        fd == Elem(in.u, 0)
        fb == Elem(in.u, 1)
        delta == Elem(in.u, 2)
        i == in.x.stage
    IN  << [kind |-> "prod_le", stage |-> i, a |-> v, b |-> fd, ub |-> cfg.P_max],
           [kind |-> "ge", stage |-> i, a |-> v, lb |-> 0],
           [kind |-> "bounded", stage |-> i, lb |-> 0, a |-> fd, ub |-> cfg.Fd_max],
           [kind |-> "bounded", stage |-> i, lb |-> cfg.Fb_max, a |-> fb, ub |-> 0],
           [kind |-> "sqprod_le", stage |-> i, a |-> fd, b |-> fb, ub |-> 1],
           [kind |-> "bounded", stage |-> i, lb |-> -1 * delta_max(base), a |-> delta,
            ub |-> delta_max(base)] >>

\* a variant whose drive rate bound divides by Tb instead of Td
DynamicActuatorConstraintsWrongLag(in, base, cfg) ==
    LET i == in.x.stage
    IN  << [kind |-> "rate_le", stage |-> i, next |-> Elem(in.uip1, 0),
            cur |-> Elem(in.u, 0), t |-> in.t,
            num |-> cfg.Fd_max, den |-> cfg.Tb],
           [kind |-> "rate_ge", stage |-> i, next |-> Elem(in.uip1, 1),
            cur |-> Elem(in.u, 1), t |-> in.t,
            num |-> cfg.Fb_max, den |-> cfg.Tb],
           [kind |-> "rate_bounded", stage |-> i, next |-> Elem(in.uip1, 2),
            cur |-> Elem(in.u, 2), t |-> in.t,
            num |-> delta_max(base) * Tdelta(base).den, den |-> Tdelta(base).num] >>

\* lines 131-134: the dynamic actuator constraints.  The bound num/den of
\* the steer rate is delta_max / Tdelta.
DynamicActuatorConstraints(in, base, cfg) ==
    LET i == in.x.stage
    IN  << [kind |-> "rate_le", stage |-> i, next |-> Elem(in.uip1, 0),
            cur |-> Elem(in.u, 0), t |-> in.t,
            num |-> cfg.Fd_max, den |-> cfg.Td],
           [kind |-> "rate_ge", stage |-> i, next |-> Elem(in.uip1, 1),
            cur |-> Elem(in.u, 1), t |-> in.t,
            num |-> cfg.Fb_max, den |-> cfg.Tb],
           [kind |-> "rate_bounded", stage |-> i, next |-> Elem(in.uip1, 2),
            cur |-> Elem(in.u, 2), t |-> in.t,
            num |-> delta_max(base) * Tdelta(base).den, den |-> Tdelta(base).num] >>

\* everything one call passes to opti.subject_to, in the order of the calls
StageConstraints(f, in, base, cfg) ==
    DynamicsConstraint(f, in) \o TyreConstraints(f, in, cfg.mu10)
      \o LoadTransferConstraint(f, in, base)
      \o StaticActuatorConstraints(in, base, cfg)
      \o DynamicActuatorConstraints(in, base, cfg)

\* a variant that rebuilds the problem from this stage alone
add_nlp_constraints_reset(in) ==
    /\ constructed
    /\ nlp_calls < MaxCalls
    /\ nlp_calls' = nlp_calls + 1
    /\ opti' = StageConstraints(dynamics_, in, base_config_, config_)
    /\ nlp_in' = in
    /\ UNCHANGED <<constructed, base_config_, config_, dynamics_,
                   lateral_load_transfer_, compile_count, fd_last, fd_prev,
                   solver_run, solve_out>>

add_nlp_constraints(in) ==
    /\ constructed
    /\ nlp_calls < MaxCalls
    /\ nlp_calls' = nlp_calls + 1
    /\ opti' = opti \o StageConstraints(dynamics_, in, base_config_, config_)
    /\ nlp_in' = in
    /\ UNCHANGED <<constructed, base_config_, config_, dynamics_,
                   lateral_load_transfer_, compile_count, fd_last, fd_prev,
                   solver_run, solve_out>>

(***************************************************************************)
(* Values of a stage.  An environment gives the numbers of one stage's     *)
(* terms: x, u, gamma_y, the next control uip1 and the duration t.         *)
(***************************************************************************)
Vec(a, env) ==
    IF a.kind = "vec" THEN a.vec
    ELSE IF a.name = "x" THEN env.x
    ELSE IF a.stage = env.stage THEN env.u
    ELSE env.uip1

Val(e, env) ==
    CASE e.kind = "num" -> e.num
      [] e.kind = "elem" -> Vec(e.of, env)[e.idx + 1]
      [] e.kind = "var" -> IF e.name = "gamma_y" THEN env.gamma_y ELSE env.t

\* a/b <= c/d for nonzero b and d
RatLeq(a, b, c, d) == b # 0 /\ d # 0 /\ (a * d - c * b) * (b * d) <= 0

\* Whether the model computes the two sides of c under env.  The friction
\* and load transfer constraints are computed where every lateral force
\* they read is (slip angle 0); the dynamics constraint relates x_{i+1},
\* which an environment does not give, and is never computed.
Decided(c, env) ==
    CASE c.kind = "friction" ->
           FyKnown(Vec(c.Fy.x, env), Vec(c.Fy.u, env), c.wheel)
      [] c.kind = "load_transfer" ->
           \A w \in 1..4 : FyKnown(Vec(c.Fy.x, env), Vec(c.Fy.u, env), w)
      [] c.kind = "eq" -> FALSE
      [] OTHER -> TRUE

\* Whether env satisfies c, where Decided(c, env)
Holds(c, env) ==
    CASE c.kind = "prod_le" -> Val(c.a, env) * Val(c.b, env) <= c.ub
      [] c.kind = "ge" -> Val(c.a, env) >= c.lb
      [] c.kind = "bounded" -> c.lb <= Val(c.a, env) /\ Val(c.a, env) <= c.ub
      [] c.kind = "sqprod_le" -> Sq(Val(c.a, env) * Val(c.b, env)) <= c.ub
      [] c.kind = "rate_le" ->
           RatLeq(Val(c.next, env) - Val(c.cur, env), Val(c.t, env), c.num, c.den)
      [] c.kind = "rate_ge" ->
           RatLeq(c.num, c.den, Val(c.next, env) - Val(c.cur, env), Val(c.t, env))
      [] c.kind = "rate_bounded" ->
           /\ RatLeq(-1 * c.num, c.den,
                     Val(c.next, env) - Val(c.cur, env), Val(c.t, env))
           /\ RatLeq(Val(c.next, env) - Val(c.cur, env), Val(c.t, env),
                     c.num, c.den)
      [] c.kind = "friction" ->
           \* (Fx/(mu*Fz))^2 + (Fy/(mu*Fz))^2 <= 1 with Fy = 0: |Fx| <= |mu*Fz|
           LET p == c.Fx.f.p
               FxN == Fx_w(p, Vec(c.Fx.u, env), c.wheel)
               FzN == Fz_w(p, Vec(c.Fz.x, env), Vec(c.Fz.u, env),
                           Val(c.Fz.gamma_y, env), c.wheel)
               \* 20 * wheel_base divides both denominators
               dz == FzDen(p) \div (20 * p.wheel_base)
               dx == FxDen(p) \div (20 * p.wheel_base)
           IN  /\ FzN # 0
               /\ Abs(10 * FxN) * dz <= Abs(c.mu10 * FzN) * dx
      [] c.kind = "load_transfer" ->
           \* every Fy is 0 and sin(delta) = 0: the right-hand side is 0
           Val(c.gamma_y, env) = 0
      [] OTHER -> TRUE

\* the constraints of opti appended for stage i
StageCons(i) == SelectSeq(opti, LAMBDA c : c.stage = i)

\* c reads the next control
ReadsNext(c) == "next" \in DOMAIN c

\* env satisfies every constraint of cs that the model computes (an upper
\* bound of the satisfying environments)
MaySat(cs, env) ==
    \A k \in 1..Len(cs) : Decided(cs[k], env) => Holds(cs[k], env)

\* the model computes every constraint of cs but the dynamics constraint,
\* and env satisfies them (the dynamics constraint is then met by the
\* x_{i+1} the integration step gives)
MustSat(cs, env) ==
    \A k \in 1..Len(cs) :
        cs[k].kind = "eq" \/ (Decided(cs[k], env) /\ Holds(cs[k], env))

(***************************************************************************)
(* RacingMPC::solve (racing_mpc.hpp line 49; its definition is not part of *)
(* the sources at hand).  Modelled from the design description: the        *)
(* problem is built with one add_nlp_constraints call per stage, the       *)
(* nonlinear solver runs, and `out` carries a status and an iterate.       *)
(***************************************************************************)
SolverOutcomes == {"converged", "infeasible", "max_iter"}
Iterates == {1, 2}
DefaultIterate == 0

RECURSIVE BuildProblem(_)
BuildProblem(n) ==
    IF n = 0 THEN <<>>
    ELSE BuildProblem(n - 1)
           \o StageConstraints(dynamics_, StageIn(n - 1), base_config_, config_)

\* a variant that reports every failure as a convergence failure, with the
\* default iterate
SolveOutConflated(run) ==
    IF run.outcome = "converged"
    THEN [status |-> "Converged", iterate |-> run.iterate]
    ELSE [status |-> "SolverDidNotConverge", iterate |-> DefaultIterate]

SolveOut(run) ==
    [status |-> CASE run.outcome = "converged" -> "Converged"
                  [] run.outcome = "infeasible" -> "SolverInfeasible"
                  [] run.outcome = "max_iter" -> "SolverDidNotConverge",
     iterate |-> run.iterate]

solve(outcome, iterate) ==
    /\ constructed
    /\ solver_run' = [outcome |-> outcome, iterate |-> iterate,
                      n_constraints |-> Len(BuildProblem(MaxStages))]
    /\ solve_out' = SolveOut(solver_run')
    /\ UNCHANGED <<constructed, base_config_, config_, dynamics_,
                   lateral_load_transfer_, compile_count, fd_last, fd_prev,
                   opti, nlp_in, nlp_calls>>

(***************************************************************************)
(* Specifications.                                                         *)
(***************************************************************************)
Next ==
    \/ \E base \in BaseConfigs, cfg \in Configs : DoubleTrackPlanarModel(base, cfg)
    \/ \E in \in ForwardInputs : forward_dynamics(in)
    \/ \E in \in StageInputs : add_nlp_constraints(in)
    \/ \E outcome \in SolverOutcomes, iterate \in Iterates : solve(outcome, iterate)

Spec == Init /\ [][Next]_vars

\* the model and one problem under construction: no forward_dynamics, no solve
NextNlp ==
    \/ \E base \in BaseConfigs, cfg \in Configs : DoubleTrackPlanarModel(base, cfg)
    \/ \E in \in StageInputs : add_nlp_constraints(in)

SpecNlp == Init /\ [][NextNlp]_vars

(***************************************************************************)
(* The environments the stage properties range over: speeds -1..MaxV,      *)
(* straight running (yaw rate 0, slip 0), each control from one below its  *)
(* configured range to one above it, gamma_y in -1..1, durations 1..MaxT.  *)
(***************************************************************************)
VRange == -1..MaxV
FdRange == -1..(config_.Fd_max + 1)
FbRange == (config_.Fb_max - 1)..1
DeltaRange == (-1 * base_config_.max_steer - 1)..(base_config_.max_steer + 1)
GammaRange == -1..1
TRange == 1..MaxT

\* The stage of the latest call.  The constraints of a stage are those
\* appended by the calls made for it, so every called stage is examined in
\* the state its latest call leaves.
LatestStage == IF nlp_calls = 0 THEN {} ELSE {nlp_in.x.stage}

Env(i, v, u, g, uip1, t) ==
    [stage |-> i, x |-> <<0, 0, 0, 0, 0, v>>, u |-> u, gamma_y |-> g,
     uip1 |-> uip1, t |-> t]

\* The constraints of stage i by what they read: the bounds on x_i and u_i
\* alone, those on the tyre forces, and those on the next control.
BoundCons(i) == SelectSeq(StageCons(i), LAMBDA c : ~ReadsNext(c) /\ "Fy" \notin DOMAIN c)
ForceCons(i) == SelectSeq(StageCons(i), LAMBDA c : "Fy" \in DOMAIN c)
NextCons(i) == SelectSeq(StageCons(i), ReadsNext)

\* the constraints of cs on element k of the next control
OnNext(cs, k) == SelectSeq(cs, LAMBDA c : c.next.idx = k)

\* every constraint on the next control relates one element of uip1 to one
\* element of u and to t: it reads neither x_i nor gamma_i
NextConsReadControls(i) ==
    \A k \in 1..Len(NextCons(i)) :
      LET c == NextCons(i)[k]
      IN  /\ c.next.kind = "elem" /\ c.next.of = VarArg("u", i + 1)
          /\ c.next.idx \in 0..2
          /\ c.cur.kind = "elem" /\ c.cur.of = VarArg("u", i)
          /\ c.t = VarArg("t", i)

\* the next controls and durations that, with (v, u, g), Sat-isfy the
\* constraints of stage i on the next control satisfy P; the next control
\* is enumerated element by element, and an element that breaks a
\* constraint on it is not extended
AllNext(Sat(_, _), i, v, u, g, P(_)) ==
    LET nxt == NextCons(i)
        on0 == OnNext(nxt, 0)
        on1 == OnNext(nxt, 1)
        on2 == OnNext(nxt, 2)
    IN  \A t \in TRange : \A nfd \in FdRange :
          Sat(on0, Env(i, v, u, g, <<nfd, 0, 0>>, t)) =>
            \A nfb \in FbRange :
              Sat(on1, Env(i, v, u, g, <<nfd, nfb, 0>>, t)) =>
                \A ndl \in DeltaRange :
                  LET e == Env(i, v, u, g, <<nfd, nfb, ndl>>, t)
                  IN  Sat(on2, e) => P(e)

\* P holds of every (x_i, u_i, gamma_i) that Sat-isfies the constraints of a
\* called stage which do not read the next control
AllStages(Sat(_, _), P(_)) ==
    \A i \in LatestStage :
      LET bound == BoundCons(i)
          force == ForceCons(i)
      IN  \A v \in VRange, fd \in FdRange, fb \in FbRange, dl \in DeltaRange,
             g \in GammaRange :
            LET e == Env(i, v, <<fd, fb, dl>>, g, <<0, 0, 0>>, 1)
            IN  Sat(bound, e) /\ Sat(force, e) => P(e)

\* P, a property of u_i, u_{i+1} and t, holds of every pair of consecutive
\* stages that Sat-isfies the constraints of a called stage.  For each u_i
\* one (v, g) that completes it stands for all of them, the constraints on
\* the next control reading neither.
AllPairs(Sat(_, _), P(_)) ==
    \A i \in LatestStage :
      LET bound == BoundCons(i)
          force == ForceCons(i)
      IN  /\ NextConsReadControls(i)
          /\ \A fd \in FdRange, fb \in FbRange, dl \in DeltaRange :
                LET u == <<fd, fb, dl>>
                    done == {vg \in VRange \X GammaRange :
                               LET e == Env(i, vg[1], u, vg[2], <<0, 0, 0>>, 1)
                               IN  Sat(bound, e) /\ Sat(force, e)}
                IN  done # {} =>
                      LET vg == CHOOSE w \in done : TRUE
                      IN  AllNext(Sat, i, vg[1], u, vg[2], P)

\* ... that may satisfy them (every constraint the model computes holds)
StageSatisfies(P(_)) == AllStages(MaySat, P)
PairSatisfies(P(_)) == AllPairs(MaySat, P)

\* ... that satisfies them, all of them computed
ExactStageSatisfies(P(_)) == AllStages(MustSat, P)
ExactPairSatisfies(P(_)) == AllPairs(MustSat, P)

\* the accessors of lines 78-81 and the next control
v_of(e) == e.x[XIDX_V + 1]
fd_of(e) == e.u[1]
fb_of(e) == e.u[2]
delta_of(e) == e.u[3]

(***************************************************************************)
(* C1 as claimed: every forward_dynamics call completes and returns x_dot, *)
(* Fx_ij, Fy_ij, Fz_ij and gamma_y, gamma_y being the load transfer        *)
(* expression evaluated at 0, and no output depends on the gamma_y symbol. *)
(***************************************************************************)
C1_ForwardDynamicsReturns ==
    fd_last.status # "none" =>
      /\ fd_last.status = "returned"
      /\ DOMAIN fd_last.out = {"x_dot", "Fx_ij", "Fy_ij", "Fz_ij", "gamma_y"}
      /\ fd_last.out.gamma_y.kind = "call" /\ fd_last.out.gamma_y.arg = NumArg(0)
      /\ \A k \in DOMAIN fd_last.out : ~DependsOn(fd_last.out[k], SymArg("gamma_y"))

(***************************************************************************)
(* C2: two forward_dynamics calls with the same (x, u) end the same way    *)
(* and leave the same `out`, whatever was called in between, and a call    *)
(* changes neither the compiled functions nor the configuration.           *)
(***************************************************************************)
SameInSameOut ==
    (fd_prev.status # "none" /\ fd_last.status # "none" /\ fd_prev.in = fd_last.in)
      => fd_prev = fd_last

NothingCalled ==
    fd_last.status = "none" /\ nlp_calls = 0 /\ solver_run.outcome = "none"

C3_CompiledOnce ==
    /\ [](compile_count = IF constructed THEN 1 ELSE 0)
    /\ [](~constructed => NothingCalled /\ dynamics_ = Null)
    /\ [](constructed => dynamics_ = compile_dynamics(base_config_, config_))
    /\ [][constructed => dynamics_' = dynamics_ /\ compile_count' = compile_count]_vars

\* every operation has been called on a constructed model
C3_Witness ==
    /\ constructed /\ compile_count = 1
    /\ fd_last.status # "none" /\ nlp_calls > 0 /\ solver_run.outcome # "none"

(***************************************************************************)
(* C4: each add_nlp_constraints call appends, for its stage, one dynamics  *)
(* equality, one friction inequality per wheel, one load transfer          *)
(* equality on gamma_y, the static actuator bounds and the actuator rate   *)
(* bounds, and leaves the constraints appended before as they were; once   *)
(* called for stages 0..N-1 every stage has all of them.                   *)
(***************************************************************************)
OfKind(cs, kinds) == SelectSeq(cs, LAMBDA c : c.kind \in kinds)

HasAllGroups(cs, i) ==
    /\ \A k \in 1..Len(cs) : cs[k].stage = i
    /\ Len(OfKind(cs, {"eq"})) = 1
    /\ Len(OfKind(cs, {"friction"})) = 4
    /\ \A w \in 1..4 : \E k \in 1..Len(cs) :
          /\ cs[k].kind = "friction" /\ cs[k].wheel = w
          /\ cs[k].Fx.u = VarArg("u", i) /\ cs[k].Fz.x = VarArg("x", i)
    /\ Len(OfKind(cs, {"load_transfer"})) = 1
    /\ \A k \in 1..Len(cs) :
          cs[k].kind = "load_transfer" => cs[k].gamma_y = VarArg("gamma_y", i)
    /\ Len(OfKind(cs, {"prod_le", "ge", "bounded", "sqprod_le"})) = 6
    /\ Len(OfKind(cs, {"rate_le", "rate_ge", "rate_bounded"})) = 3

Appended == SubSeq(opti', Len(opti) + 1, Len(opti'))

C4_Appends ==
    /\ [][nlp_calls' # nlp_calls =>
             /\ Len(opti') >= Len(opti)
             /\ SubSeq(opti', 1, Len(opti)) = opti
             /\ HasAllGroups(Appended, nlp_in'.x.stage)]_vars
    /\ [][nlp_calls' = nlp_calls => opti' = opti]_vars
    /\ [](\A i \in 0..(MaxStages - 1) :
             StageCons(i) # <<>> =>
               \E n \in 1..MaxCalls :
                 /\ Len(OfKind(StageCons(i), {"eq"})) = n
                 /\ Len(OfKind(StageCons(i), {"friction"})) = 4 * n
                 /\ Len(OfKind(StageCons(i), {"load_transfer"})) = n
                 /\ Len(OfKind(StageCons(i),
                               {"prod_le", "ge", "bounded", "sqprod_le"})) = 6 * n
                 /\ Len(OfKind(StageCons(i),
                               {"rate_le", "rate_ge", "rate_bounded"})) = 3 * n)

\* the call has been made for every stage 0..N-1
C4_Witness == \A i \in 0..(MaxStages - 1) : StageCons(i) # <<>>

(***************************************************************************)
(* C5: every stage that satisfies the appended constraints satisfies the   *)
(* static actuator bounds: speed >= 0, speed*drive <= P_max,               *)
(* 0 <= drive <= Fd_max, Fb_max <= brake <= 0, |steer| <= steer_max.       *)
(***************************************************************************)
StaticBounds(e) ==
    /\ v_of(e) >= 0
    /\ v_of(e) * fd_of(e) <= config_.P_max
    /\ 0 <= fd_of(e) /\ fd_of(e) <= config_.Fd_max
    /\ config_.Fb_max <= fb_of(e) /\ fb_of(e) <= 0
    /\ -1 * base_config_.max_steer <= delta_of(e)
    /\ delta_of(e) <= base_config_.max_steer

C5_StaticBounds == StageSatisfies(StaticBounds)

\* a call has been made, and some stage with positive speed and drive
\* satisfies its constraints while a stage outside the bounds exists
C5_Witness ==
    /\ nlp_calls > 0
    /\ ~ExactStageSatisfies(LAMBDA e : ~(v_of(e) > 0 /\ fd_of(e) > 0))
    /\ \E fb \in FbRange : fb > 0

(***************************************************************************)
(* C6 as claimed: in every stage that satisfies the appended constraints,  *)
(* drive force and brake force are not both nonzero.                       *)
(***************************************************************************)
C6_MutualExclusion ==
    ExactStageSatisfies(LAMBDA e : ~(fd_of(e) # 0 /\ fb_of(e) # 0))

\* C6 as amended: in every stage that satisfies the appended constraints
\* the product of drive force and brake force is at most 1 in magnitude
\* (both may be nonzero).
C6_ProductBound ==
    StageSatisfies(LAMBDA e : -1 <= fd_of(e) * fb_of(e) /\ fd_of(e) * fb_of(e) <= 1)

\* a stage with drive 1 and brake -1 satisfies the constraints of a called stage
C6_Witness ==
    /\ nlp_calls > 0
    /\ ~ExactStageSatisfies(LAMBDA e : ~(fd_of(e) = 1 /\ fb_of(e) = -1))

(***************************************************************************)
(* C7 as claimed: for drive, brake and steer, every pair of consecutive    *)
(* stages that satisfies the appended constraints has (u_{i+1} - u_i)/t    *)
(* within -L..L, L being Fd_max/Td, |Fb_max|/Tb and steer_max/Tdelta.      *)
(***************************************************************************)
RateWithin(e, k, num, den) ==
    /\ RatLeq(e.uip1[k] - e.u[k], e.t, num, den)
    /\ RatLeq(-1 * num, den, e.uip1[k] - e.u[k], e.t)

SteerRateBound(e) ==
    RateWithin(e, 3, base_config_.max_steer * base_config_.max_steer_rate,
               base_config_.max_steer)

C7_RateMagnitude ==
    ExactPairSatisfies(LAMBDA e :
        /\ RateWithin(e, 1, config_.Fd_max, config_.Td)
        /\ RateWithin(e, 2, -1 * config_.Fb_max, config_.Tb)
        /\ SteerRateBound(e))

\* C7 as amended: the drive rate is at most Fd_max/Td (no bound on its
\* decrease), the brake rate is at least Fb_max/Tb (no bound on its
\* increase towards 0), and the steer rate is within
\* -steer_max/Tdelta..steer_max/Tdelta.
C7_RateOneSided ==
    PairSatisfies(LAMBDA e :
        /\ RatLeq(e.uip1[1] - e.u[1], e.t, config_.Fd_max, config_.Td)
        /\ RatLeq(config_.Fb_max, config_.Tb, e.uip1[2] - e.u[2], e.t)
        /\ SteerRateBound(e))

\* a pair of stages satisfies the constraints of a called stage while the
\* drive force falls faster than Fd_max/Td
C7_Witness ==
    /\ nlp_calls > 0
    /\ ~ExactPairSatisfies(LAMBDA e :
            RatLeq(-1 * config_.Fd_max, config_.Td, e.uip1[1] - e.u[1], e.t))

(***************************************************************************)
(* C8: the status solve returns tells a converged run, an infeasible       *)
(* problem and a run that did not converge apart, and on failure the       *)
(* iterate returned is the solver's last one, not a default.               *)
(***************************************************************************)
C8_DistinctStatus ==
    solver_run.outcome # "none" =>
      /\ solve_out.status = "Converged" <=> solver_run.outcome = "converged"
      /\ solve_out.status = "SolverInfeasible" <=> solver_run.outcome = "infeasible"
      /\ solve_out.status = "SolverDidNotConverge" <=> solver_run.outcome = "max_iter"
      /\ solve_out.iterate = solver_run.iterate
      /\ solver_run.outcome # "converged" => solve_out.iterate # DefaultIterate

\* the solver has reported an infeasible problem
C8_Witness ==
    solver_run.outcome = "infeasible" /\ solve_out.status # "none"

(***************************************************************************)
(* C9: the dynamics equality of stage i is the Hermite-Simpson defect      *)
(* x_i + (t/6)(f1 + 4 fm + f2) - x'_{i+1} = 0, x'_{i+1} being x_{i+1} with *)
(* its yaw aligned to the yaw of x_i, f1 = f(x_i), f2 = f(x'_{i+1}),       *)
(* fm = f((x_i + x'_{i+1})/2 + (t/8)(f1 - f2)), each evaluated with u_i     *)
(* and gamma_i; the x_{i+1} the caller passed is left as it was.           *)
(***************************************************************************)
HermiteSimpsonDefect(i) ==
    LET x_i  == VarArg("x", i)
        u_i  == VarArg("u", i)
        g_i  == VarArg("gamma_y", i)
        t_i  == VarArg("t", i)
        xn   == [kind |-> "with_elem", of |-> VarArg("x", i + 1), idx |-> XIDX_YAW,
                 to |-> [kind |-> "align_yaw",
                         yaw |-> [kind |-> "elem", of |-> VarArg("x", i + 1),
                                  idx |-> XIDX_YAW],
                         ref |-> [kind |-> "elem", of |-> x_i, idx |-> XIDX_YAW]]]
        F(x) == [f |-> dynamics_, out |-> "x_dot", x |-> x, u |-> u_i, gamma_y |-> g_i]
        mid  == [kind |-> "add",
                 a |-> [kind |-> "scale", num |-> 1, den |-> 2,
                        a |-> [kind |-> "add", a |-> x_i, b |-> xn]],
                 b |-> [kind |-> "times_t", t |-> t_i, den |-> 8,
                        a |-> [kind |-> "sub", a |-> F(x_i), b |-> F(xn)]]]
        simpson == [kind |-> "add",
                    a |-> [kind |-> "add", a |-> F(x_i),
                           b |-> [kind |-> "scale", num |-> 4, den |-> 1,
                                  a |-> F(mid)]],
                    b |-> F(xn)]
    IN  [kind |-> "sub",
         a |-> [kind |-> "add", a |-> x_i,
                b |-> [kind |-> "times_t", t |-> t_i, den |-> 6, a |-> simpson]],
         b |-> xn]

C9_HermiteSimpson ==
    /\ \A k \in 1..Len(opti) :
          opti[k].kind = "eq" =>
            /\ opti[k].lhs = HermiteSimpsonDefect(opti[k].stage)
            /\ opti[k].rhs = NumArg(0)
    /\ nlp_calls > 0 => nlp_in.xip1 = VarArg("x", nlp_in.x.stage + 1)

\* a defect has been appended for a stage that has a next stage in the problem
C9_Witness ==
    \E k \in 1..Len(opti) :
        /\ opti[k].kind = "eq" /\ opti[k].stage + 1 < MaxStages
        /\ StageCons(opti[k].stage + 1) # <<>>

(***************************************************************************)
(* C10 as claimed: the four vertical tyre forces of the compiled dynamics  *)
(* sum to m*g + 0.5*(cl_f + cl_r)*rho*A*v^2 for every state, control and   *)
(* gamma, wherever the centre of gravity is.  Both sides are numerators    *)
(* over FzDen.                                                             *)
(***************************************************************************)
SumFz(p, x, u, gamma_y) ==
    Fz_ij(p, x, u, gamma_y)[1] + Fz_ij(p, x, u, gamma_y)[2]
      + Fz_ij(p, x, u, gamma_y)[3] + Fz_ij(p, x, u, gamma_y)[4]

WeightPlusDownforce(p, x) ==
    2 * (lf10(p) + lr10(p)) * mg10(p)
      + 10 * (lf10(p) + lr10(p)) * (p.cl_f + p.cl_r) * p.air_density
           * p.frontal_area * v_sq(x)

C10_TotalVerticalLoad ==
    constructed =>
      \A v \in VRange, fd \in 0..1, fb \in -1..0, g \in GammaRange :
        SumFz(dynamics_.p, <<0, 0, 0, 0, 0, v>>, <<fd, fb, 0>>, g)
          = WeightPlusDownforce(dynamics_.p, <<0, 0, 0, 0, 0, v>>)

====
